---- MODULE Spec2Model ----
(***************************************************************************)
(* Model of the Markdown Fetcher server action (src/app/actions.ts):       *)
(* the HTML normalizer (extractBodyContent, stripHtmlTags) and the         *)
(* fetchAndFormat request that dispatches on the processing option.        *)
(*                                                                         *)
(* A JavaScript string is a sequence of one-character strings.  Every      *)
(* regular expression of the source is an operator that returns, for a     *)
(* text and a start position, the length of the match the JavaScript       *)
(* engine finds there (0 when there is none; no pattern of the source      *)
(* matches the empty string), and String.prototype.replace with the g flag *)
(* is the left-to-right scan ReplaceAll.                                   *)
(***************************************************************************)
EXTENDS Integers, Sequences, FiniteSets, TLC

----------------------------------------------------------------------------
(* Characters and character classes                                        *)

UpperToLower ==
  [A |-> "a", B |-> "b", C |-> "c", D |-> "d", E |-> "e", F |-> "f",
   G |-> "g", H |-> "h", I |-> "i", J |-> "j", K |-> "k", L |-> "l",
   M |-> "m", N |-> "n", O |-> "o", P |-> "p", Q |-> "q", R |-> "r",
   S |-> "s", T |-> "t", U |-> "u", V |-> "v", W |-> "w", X |-> "x",
   Y |-> "y", Z |-> "z"]

\* Canonicalisation of the i flag (ASCII letters only fold onto ASCII letters).
Lower(c) ==
  IF c \in DOMAIN UpperToLower THEN UpperToLower[c] ELSE c

\* The class \s of a regular expression, which is also what trim() removes.
IsSpace(c) ==
  c \in {" ", "\t", "\n", "\r", "\f"}

\* The literal w (given in lower case) stands at position i of s; ci is the i flag.
LitAt(s, i, w, ci) ==
  /\ i >= 1
  /\ i + Len(w) - 1 <= Len(s)
  /\ \A k \in 1..Len(w) : (IF ci THEN Lower(s[i + k - 1]) ELSE s[i + k - 1]) = w[k]

MinOf(S) == CHOOSE x \in S : \A y \in S : x <= y
MaxOf(S) == CHOOSE x \in S : \A y \in S : x >= y

\* Least element of the set P of positions, none when P is empty.
FirstOf(P, none) == IF P = {} THEN none ELSE MinOf(P)
LastOf(P, none)  == IF P = {} THEN none ELSE MaxOf(P)

\* Least position >= i that holds the character c, 0 when there is none.
IndexOfChar(s, c, i) ==
  FirstOf({j \in i..Len(s) : s[j] = c}, 0)

\* Least position >= i where the literal w stands, 0 when there is none.
IndexOfLit(s, w, i, ci) ==
  FirstOf({j \in i..Len(s) : LitAt(s, j, w, ci)}, 0)

\* First position >= i that is not whitespace (Len(s) + 1 when there is none).
SkipSpace(s, i) ==
  FirstOf({j \in i..Len(s) : ~IsSpace(s[j])}, Len(s) + 1)

\* Last position <= i that is not whitespace (0 when there is none).
SkipSpaceBack(s, i) ==
  LastOf({j \in 1..i : ~IsSpace(s[j])}, 0)

\* String.prototype.trim
Trim(s) ==
  LET a == SkipSpace(s, 1)
      b == SkipSpaceBack(s, Len(s))
  IN  IF a > b THEN <<>> ELSE SubSeq(s, a, b)

----------------------------------------------------------------------------
(* The regular expressions of the normalizer                               *)

NoMatch == [index |-> 0, length |-> 0, group |-> <<>>]

\* /<NAME[^>]*>([\s\S]*?)<\/NAME>/i at position i, open = "<NAME" and
\* close = "</NAME>": [^>]* runs to the first ">" after the name, the lazy
\* group to the first closing tag after that.
ElementAt(s, i, open, close) ==
  IF ~LitAt(s, i, open, TRUE) THEN NoMatch
  ELSE LET gt == IndexOfChar(s, ">", i + Len(open))
           cl == IF gt = 0 THEN 0 ELSE IndexOfLit(s, close, gt + 1, TRUE)
       IN  IF cl = 0 THEN NoMatch
           ELSE [index |-> i, length |-> cl + Len(close) - i,
                 group |-> SubSeq(s, gt + 1, cl - 1)]

\* String.prototype.match without the g flag: the leftmost match.
FirstElement(s, open, close) ==
  LET at == FirstOf({i \in 1..Len(s) : ElementAt(s, i, open, close).length > 0}, 0)
  IN  IF at = 0 THEN NoMatch ELSE ElementAt(s, at, open, close)

\* new RegExp(`<${tag}(\\s[^>]*)?>`, 'gi') at position i
OpenTagAt(s, i, tag) ==
  IF ~(i <= Len(s) /\ s[i] = "<" /\ LitAt(s, i + 1, tag, TRUE)) THEN 0
  ELSE LET j == i + 1 + Len(tag)
       IN  IF j > Len(s) THEN 0
           ELSE IF s[j] = ">" THEN j - i + 1
           ELSE IF IsSpace(s[j])
           THEN LET gt == IndexOfChar(s, ">", j + 1)
                IN  IF gt = 0 THEN 0 ELSE gt - i + 1
           ELSE 0

\* new RegExp(`</${tag}>`, 'gi') at position i
CloseTagAt(s, i, tag) ==
  IF /\ i + Len(tag) + 2 <= Len(s)
     /\ s[i] = "<"
     /\ s[i + 1] = "/"
     /\ LitAt(s, i + 2, tag, TRUE)
     /\ s[i + 2 + Len(tag)] = ">"
  THEN Len(tag) + 3
  ELSE 0

\* /<NAME\s*\/?>/gi at position i (NAME is br or hr)
VoidTagAt(s, i, name) ==
  IF ~(i <= Len(s) /\ s[i] = "<" /\ LitAt(s, i + 1, name, TRUE)) THEN 0
  ELSE LET j == SkipSpace(s, i + 1 + Len(name))
           k == IF j <= Len(s) /\ s[j] = "/" THEN j + 1 ELSE j
       IN  IF k <= Len(s) /\ s[k] = ">" THEN k - i + 1 ELSE 0

\* /<[^>]+>/g at position i
AnyTagAt(s, i) ==
  IF i + 2 <= Len(s) /\ s[i] = "<" /\ s[i + 1] # ">"
  THEN LET gt == IndexOfChar(s, ">", i + 2)
       IN  IF gt = 0 THEN 0 ELSE gt - i + 1
  ELSE 0

\* / +/g at position i: the whole run of spaces that starts there
SpacesAt(s, i) ==
  IF i <= Len(s) /\ s[i] = " "
  THEN FirstOf({j \in i..Len(s) : s[j] # " "}, Len(s) + 1) - i
  ELSE 0

\* Last newline among the positions i..j, 0 when there is none.
LastNewline(s, i, j) ==
  LastOf({p \in i..j : s[p] = "\n"}, 0)

\* /\n\s*\n/g at position i: \s* is greedy and backtracks to the last newline
\* of the whitespace run that follows the first one.
BlankLinesAt(s, i) ==
  IF i <= Len(s) /\ s[i] = "\n"
  THEN LET e  == SkipSpace(s, i + 1)
           nl == LastNewline(s, i + 1, e - 1)
       IN  IF nl = 0 THEN 0 ELSE nl - i + 1
  ELSE 0

\* A regular expression of stripHtmlTags with its replacement string: the
\* length of its match at position i of s (0: no match there) ...
MatchAt(re, s, i) ==
  CASE re.kind = "element" -> ElementAt(s, i, re.open, re.close).length
    [] re.kind = "open"    -> OpenTagAt(s, i, re.tag)
    [] re.kind = "close"   -> CloseTagAt(s, i, re.tag)
    [] re.kind = "void"    -> VoidTagAt(s, i, re.tag)
    [] re.kind = "tag"     -> AnyTagAt(s, i)
    [] re.kind = "literal" -> IF LitAt(s, i, re.name, FALSE) THEN Len(re.name) ELSE 0
    [] re.kind = "spaces"  -> SpacesAt(s, i)
    [] re.kind = "blank"   -> BlankLinesAt(s, i)

\* ... and what replaces the matched text m (`$&` is the matched text).
Replacement(re, m) ==
  CASE re.kind = "open"  -> re.with \o m
    [] re.kind = "close" -> m \o re.with
    [] OTHER             -> re.with

\* String.prototype.replace with a g-flagged pattern: the leftmost match at or
\* after i is replaced, the text before it is kept, and the scan resumes
\* right after the match.
RECURSIVE ReplaceFrom(_, _, _)
ReplaceFrom(re, s, i) ==
  LET at == FirstOf({p \in i..Len(s) : MatchAt(re, s, p) > 0}, 0)
  IN  IF at = 0 THEN SubSeq(s, i, Len(s))
      ELSE LET n == MatchAt(re, s, at)
           IN  SubSeq(s, i, at - 1)
                 \o Replacement(re, SubSeq(s, at, at + n - 1))
                 \o ReplaceFrom(re, s, at + n)

\* (Nothing can match in the empty string.)
ReplaceAll(re, s) ==
  IF s = <<>> THEN <<>> ELSE ReplaceFrom(re, s, 1)

----------------------------------------------------------------------------
(* extractBodyContent and stripHtmlTags                                    *)

BodyOpen  == <<"<", "b", "o", "d", "y">>
BodyClose == <<"<", "/", "b", "o", "d", "y", ">">>
ScriptOpen  == <<"<", "s", "c", "r", "i", "p", "t">>
ScriptClose == <<"<", "/", "s", "c", "r", "i", "p", "t", ">">>
StyleOpen  == <<"<", "s", "t", "y", "l", "e">>
StyleClose == <<"<", "/", "s", "t", "y", "l", "e", ">">>
ThematicBreak == <<"\n", "\n", "-", "-", "-", "\n", "\n">>

\* The code points U+00A9 and U+00AE, each one character of the text.
CopyrightSign  == "U+00A9"
RegisteredSign == "U+00AE"

\* Faulty variant of the pattern: a greedy group, /<body[^>]*>([\s\S]*)<\/body>/i.
bodyMatchGreedy(html) ==
  LET m  == FirstElement(html, BodyOpen, BodyClose)
      gt == IndexOfChar(html, ">", m.index + Len(BodyOpen))
      cl == LastOf({j \in 1..Len(html) : LitAt(html, j, BodyClose, TRUE)}, 0)
  IN  IF m.length = 0 THEN m
      ELSE [index |-> m.index, length |-> cl + Len(BodyClose) - m.index,
            group |-> SubSeq(html, gt + 1, cl - 1)]

\* html.match(/<body[^>]*>([\s\S]*?)<\/body>/i)
bodyMatch(html) ==
  FirstElement(html, BodyOpen, BodyClose)

\* Faulty variant: the fallback returns the input trimmed.
extractBodyContentTrimmingAll(html) ==
  LET m == bodyMatch(html)
  IN  IF m.length > 0 /\ m.group # <<>> THEN Trim(m.group) ELSE Trim(html)

\* An empty string is falsy: `bodyMatch && bodyMatch[1]` tests the group before
\* it is trimmed.
extractBodyContent(html) ==
  LET m == bodyMatch(html)
  IN  IF m.length > 0 /\ m.group # <<>> THEN Trim(m.group) ELSE html

\* Faulty variant: only <script> without attributes opens a script element.
RemoveBareScripts(text) ==
  ReplaceAll([kind |-> "element", open |-> ScriptOpen \o <<">">>, close |-> ScriptClose,
              with |-> <<>>], text)

RemoveScripts(text) ==
  ReplaceAll([kind |-> "element", open |-> ScriptOpen, close |-> ScriptClose,
              with |-> <<>>], text)

RemoveStyles(text) ==
  ReplaceAll([kind |-> "element", open |-> StyleOpen, close |-> StyleClose,
              with |-> <<>>], text)

blockTags ==
  << <<"p">>,
     <<"d", "i", "v">>,
     <<"h", "1">>,
     <<"h", "2">>,
     <<"h", "3">>,
     <<"h", "4">>,
     <<"h", "5">>,
     <<"h", "6">>,
     <<"l", "i">>,
     <<"b", "l", "o", "c", "k", "q", "u", "o", "t", "e">>,
     <<"t", "d">>,
     <<"t", "h">>,
     <<"t", "r">>,
     <<"c", "a", "p", "t", "i", "o", "n">>,
     <<"s", "e", "c", "t", "i", "o", "n">>,
     <<"a", "r", "t", "i", "c", "l", "e">>,
     <<"a", "s", "i", "d", "e">>,
     <<"n", "a", "v">>,
     <<"h", "e", "a", "d", "e", "r">>,
     <<"f", "o", "o", "t", "e", "r">>,
     <<"a", "d", "d", "r", "e", "s", "s">>,
     <<"d", "d">>,
     <<"d", "t">>,
     <<"d", "l">>,
     <<"f", "i", "g", "u", "r", "e">>,
     <<"f", "i", "g", "c", "a", "p", "t", "i", "o", "n">> >>

\* Faulty variant of a round: no newline after the closing tags.
BlockTagRoundOpeningOnly(text, tag) ==
  ReplaceAll([kind |-> "open", tag |-> tag, with |-> <<"\n">>], text)

\* One round of blockTags.forEach: `\n$&` for the opening tags of tag, then
\* `$&\n` for its closing tags.
BlockTagRound(text, tag) ==
  ReplaceAll([kind |-> "close", tag |-> tag, with |-> <<"\n">>],
             ReplaceAll([kind |-> "open", tag |-> tag, with |-> <<"\n">>], text))

\* blockTags.forEach from the k-th tag on (an empty text stays empty).
RECURSIVE BlockTagsFrom(_, _)
BlockTagsFrom(text, k) ==
  IF k > Len(blockTags) \/ text = <<>> THEN text
  ELSE BlockTagsFrom(BlockTagRound(text, blockTags[k]), k + 1)

BreakBlockTags(text) ==
  BlockTagsFrom(text, 1)

ReplaceBr(text) ==
  ReplaceAll([kind |-> "void", tag |-> <<"b", "r">>, with |-> <<"\n">>], text)

\* Faulty variant: a rule set off by single newlines.
ReplaceHrSingleNewlines(text) ==
  ReplaceAll([kind |-> "void", tag |-> <<"h", "r">>,
              with |-> <<"\n", "-", "-", "-", "\n">>], text)

ReplaceHr(text) ==
  ReplaceAll([kind |-> "void", tag |-> <<"h", "r">>, with |-> ThematicBreak], text)

\* Faulty variant: the pattern without its g flag replaces the first tag only.
RemoveFirstTag(text) ==
  LET at == FirstOf({p \in 1..Len(text) : AnyTagAt(text, p) > 0}, 0)
  IN  IF at = 0 THEN text
      ELSE SubSeq(text, 1, at - 1) \o SubSeq(text, at + AnyTagAt(text, at), Len(text))

\* Faulty variant: the pattern /<[^>]*>/g, which takes the empty pair <> for
\* a tag as well.
RemoveTagsAndEmptyPairs(text) ==
  ReplaceAll([kind |-> "tag", with |-> <<>>],
             ReplaceAll([kind |-> "literal", name |-> <<"<", ">">>, with |-> <<>>], text))

RemoveTags(text) ==
  ReplaceAll([kind |-> "tag", with |-> <<>>], text)

\* The entity table in the order of its eight replace calls.
entities ==
  << [name |-> <<"&", "n", "b", "s", "p", ";">>, char |-> " "],
     [name |-> <<"&", "l", "t", ";">>,           char |-> "<"],
     [name |-> <<"&", "g", "t", ";">>,           char |-> ">"],
     [name |-> <<"&", "a", "m", "p", ";">>,      char |-> "&"],
     [name |-> <<"&", "q", "u", "o", "t", ";">>, char |-> "\""],
     [name |-> <<"&", "#", "3", "9", ";">>,      char |-> "'"],
     [name |-> <<"&", "c", "o", "p", "y", ";">>, char |-> CopyrightSign],
     [name |-> <<"&", "r", "e", "g", ";">>,      char |-> RegisteredSign] >>

\* text.replace(/&name;/g, char): the entity names are matched case-sensitively.
DecodeEntity(text, e) ==
  ReplaceAll([kind |-> "literal", name |-> e.name, with |-> <<e.char>>], text)

\* The replace calls of the table from the k-th entity on (an empty text
\* stays empty).
RECURSIVE DecodeFrom(_, _)
DecodeFrom(text, k) ==
  IF k > Len(entities) \/ text = <<>> THEN text
  ELSE DecodeFrom(DecodeEntity(text, entities[k]), k + 1)

DecodeEntities(text) ==
  DecodeFrom(text, 1)

CollapseSpaces(text) ==
  ReplaceAll([kind |-> "spaces", with |-> <<" ">>], text)

\* Faulty variant: the pattern without its g flag collapses the first blank
\* stretch only.
CollapseFirstBlankLines(text) ==
  LET at == FirstOf({p \in 1..Len(text) : BlankLinesAt(text, p) > 0}, 0)
  IN  IF at = 0 THEN text
      ELSE SubSeq(text, 1, at - 1) \o <<"\n", "\n">>
             \o SubSeq(text, at + BlankLinesAt(text, at), Len(text))

CollapseBlankLines(text) ==
  ReplaceAll([kind |-> "blank", with |-> <<"\n", "\n">>], text)

\* Faulty variant: the final trim is missing.
NormalizeWhitespaceUntrimmed(text) ==
  ReplaceAll([kind |-> "blank", with |-> <<"\n", "\n">>],
             ReplaceAll([kind |-> "spaces", with |-> <<" ">>], text))

\* The three final statements of stripHtmlTags.
NormalizeWhitespace(text) ==
  Trim(CollapseBlankLines(CollapseSpaces(text)))

\* The text after `text = text.replace(/<[^>]+>/g, '')`.
StripMarkup(html) ==
  RemoveTags(ReplaceHr(ReplaceBr(BreakBlockTags(RemoveStyles(RemoveScripts(html))))))

\* What a call that throws leaves in place of a result.
Thrown == <<"<thrown>">>

\* Faulty variant: a guard that rejects the empty string.
stripHtmlTagsRejectingEmpty(html) ==
  IF html = <<>> THEN Thrown
  ELSE Trim(ReplaceAll([kind |-> "blank", with |-> <<"\n", "\n">>],
              ReplaceAll([kind |-> "spaces", with |-> <<" ">>],
                DecodeEntities(StripMarkup(html)))))

stripHtmlTags(html) ==
  NormalizeWhitespace(DecodeEntities(StripMarkup(html)))

----------------------------------------------------------------------------
(* fetchAndFormat                                                          *)

\* Concurrent invocations of the server action.
Req == {1, 2}

Null == "<null>"

ProcessingOptionsEnum ==
  {"extract_body_strip_tags", "full_page_strip_tags", "full_page_ai_handles_html",
   "external_api"}

\* A run of MaxContentLength characters "x" is carried as this one symbol:
\* no pattern of the normalizer names the letter x, so the run is matched
\* by a character class exactly as a single "x" is.
LongRun == "x..x"

MaxContentLength == 5 * 1024 * 1024

\* String.prototype.length
JsLength(s) ==
  Len(s) + (MaxContentLength - 1) * Cardinality({i \in 1..Len(s) : s[i] = LongRun})

\* What the form data may carry.
RawUrls == {"https://example.com/post", "not a url"}
RawOptions == ProcessingOptionsEnum \cup {"bogus"}

\* UrlInputSchema.safeParse: the issues, as the action joins them.
ValidationErrors(rawUrl, rawOption) ==
  LET badUrl == rawUrl # "https://example.com/post"
      badOpt == rawOption \notin ProcessingOptionsEnum
  IN  IF badUrl /\ badOpt
      THEN "url: Please enter a valid URL., processingOption: Invalid enum value."
      ELSE IF badUrl THEN "url: Please enter a valid URL."
      ELSE IF badOpt THEN "processingOption: Invalid enum value."
      ELSE Null

\* The pages a fetched URL may answer with.
Pages ==
  { <<"<", "t", "i", "t", "l", "e", ">", "T", "<", "/", "t", "i", "t", "l", "e", ">",
      "<", "b", "o", "d", "y", ">", "<", "p", ">", "H", "i", "<", "/", "p", ">",
      "<", "/", "b", "o", "d", "y", ">">>,
    <<" ", "<", "B", "O", "D", "Y", " ", "i", "d", "=", "m", ">", " ", "a", "&",
      "a", "m", "p", ";", "b", " ", " ", "<", "h", "r", ">", "c", " ", "<", "/",
      "B", "O", "D", "Y", ">", "\n">>,
    <<"<", "t", "i", "t", "l", "e", ">", "T", "<", "/", "t", "i", "t", "l", "e", ">",
      "<", "b", "o", "d", "y", ">", " ", "<", "/", "b", "o", "d", "y", ">">>,
    <<"<", "s", "c", "r", "i", "p", "t", ">", "f", "(", ")", "<", "/", "s", "c",
      "r", "i", "p", "t", ">">>,
    <<" ", "p", "l", "a", "i", "n", " ", " ", "t", "e", "x", "t", "\n">>,
    <<" ", "\n">>,
    <<>>,
    <<LongRun>>,
    <<LongRun, "!">> }

FetchOutcomes ==
  {[kind |-> "rejects", ok |-> FALSE, text |-> <<>>],
   [kind |-> "response", ok |-> FALSE, text |-> <<>>]}
    \cup {[kind |-> "response", ok |-> TRUE, text |-> t] : t \in Pages}

\* What formatURLToMarkdown may settle with: the markdown of the model, or a
\* rejection with the message of the error thrown (an error may carry none).
FormatOutcomes ==
  {[kind |-> "resolves", markdown |-> "# Title", message |-> Null],
   [kind |-> "resolves", markdown |-> "", message |-> Null],
   [kind |-> "rejects", markdown |-> Null, message |-> "Model request failed"],
   [kind |-> "rejects", markdown |-> Null, message |-> ""]}

\* Bodies the external API may answer with: the response text and what
\* JSON.parse makes of it (parsed = FALSE: a SyntaxError).
ExternalBodies ==
  {[text |-> "# From API", parsed |-> FALSE, error |-> Null, markdown |-> Null],
   [text |-> "  ", parsed |-> FALSE, error |-> Null, markdown |-> Null],
   [text |-> "{\"markdown\":\"# Json\"}", parsed |-> TRUE, error |-> Null,
    markdown |-> "# Json"],
   [text |-> "{\"markdown\":\"\"}", parsed |-> TRUE, error |-> Null, markdown |-> ""],
   [text |-> "{\"error\":\"quota\"}", parsed |-> TRUE, error |-> "quota",
    markdown |-> Null],
   [text |-> "{\"title\":\"t\"}", parsed |-> TRUE, error |-> Null, markdown |-> Null]}

PostOutcomes ==
  {[kind |-> "rejects", ok |-> FALSE, body |-> b] : b \in {CHOOSE b \in ExternalBodies : TRUE}}
    \cup {[kind |-> "response", ok |-> o, body |-> b] : o \in BOOLEAN, b \in ExternalBodies}

IsBlank(m) == m \in {"", "  "}

VARIABLES
  externalApiUrl,   \* process.env.EXTERNAL_MARKDOWN_API_URL
  pc,               \* where each invocation stands
  form,             \* its validated url and processingOption
  fullHtmlContent,  \* the text of the fetched response
  contentForAI,     \* the content the switch produced
  formatInput,      \* the argument of formatURLToMarkdown
  state,            \* the FetchAndFormatState it returned
  log,              \* the calls it made, in order
  requests,         \* the HTTP requests it issued, each with how it settled
  responseText,     \* the text of the external API's response
  formData,         \* the form data it was invoked with
  parts,            \* normalizer on its own: the parts of the input,
  html,             \*   the input,
  fn,               \*   the function applied to it
  text,             \*   and its result
  formValues,       \* page: the values the form holds
  isOpen,           \* chat: the panel is open
  messages,         \*   the transcript
  inputValue,       \*   the text of the input
  isLoading,        \*   a request is awaited
  chatCalls,        \*   the callChatAgentAction calls, each with how it settled
  theme,            \* theme provider: the theme state
  mounted,          \*   the mount effect has run
  storage,          \*   localStorage under the storage key
  rootClasses,      \*   the class list of the document root
  prefersDark,      \*   (prefers-color-scheme: dark) matches
  applied,          \*   the dependencies the class effect last ran with
  consumer          \*   what useTheme gave the component that called it

reqVars == <<externalApiUrl, pc, form, fullHtmlContent, contentForAI, formatInput, state, log,
             requests, responseText, formData>>
fnVars  == <<parts, html, fn, text>>
pageVars  == <<formValues>>
chatVars  == <<isOpen, messages, inputValue, isLoading, chatCalls>>
themeVars == <<theme, mounted, storage, rootClasses, prefersDark, applied, consumer>>
vars    == <<externalApiUrl, pc, form, fullHtmlContent, contentForAI, formatInput, state,
             log, requests, responseText, formData, parts, html, fn, text, formValues,
             isOpen, messages, inputValue, isLoading, chatCalls,
             theme, mounted, storage, rootClasses, prefersDark, applied, consumer>>

initialState ==
  [markdown |-> Null, error |-> Null, success |-> FALSE,
   submittedUrl |-> Null, submittedProcessingOption |-> Null]

NoFormatInput == [url |-> Null, content |-> <<>>, processingOption |-> Null]

\* Faulty variant of the catch block: the message of the error is reported as
\* it is, with no default for an error that carries none.
CaughtWithRawMessage(r, message) ==
  LET errorMessage ==
        IF message = "fetch failed"
        THEN "Could not connect to the URL. Please check the URL and your internet connection."
        ELSE message
  IN  [markdown |-> Null, error |-> errorMessage, success |-> FALSE,
       submittedUrl |-> form[r].url,
       submittedProcessingOption |-> form[r].processingOption]

\* The catch block of the action.
Caught(r, message) ==
  LET errorMessage ==
        IF message = "" THEN "An unexpected error occurred while processing the URL."
        ELSE IF message = "fetch failed"
        THEN "Could not connect to the URL. Please check the URL and your internet connection."
        ELSE message
  IN  [markdown |-> Null, error |-> errorMessage, success |-> FALSE,
       submittedUrl |-> form[r].url,
       submittedProcessingOption |-> form[r].processingOption]

Succeeded(r, markdown) ==
  [markdown |-> markdown, error |-> Null, success |-> TRUE,
   submittedUrl |-> form[r].url,
   submittedProcessingOption |-> form[r].processingOption]

\* Faulty variant of the switch: the first case forgets extractBodyContent.
ContentForAIWithoutBody(option, fullHtml) ==
  CASE option = "extract_body_strip_tags"   -> stripHtmlTags(fullHtml)
    [] option = "full_page_strip_tags"      -> stripHtmlTags(fullHtml)
    [] option = "full_page_ai_handles_html" -> fullHtml

\* Faulty variant of the switch: the raw page is trimmed.
ContentForAITrimmed(option, fullHtml) ==
  CASE option = "extract_body_strip_tags"   -> stripHtmlTags(extractBodyContent(fullHtml))
    [] option = "full_page_strip_tags"      -> stripHtmlTags(fullHtml)
    [] option = "full_page_ai_handles_html" -> Trim(fullHtml)

\* Faulty variant: the page is kept in a buffer of the module, which the
\* first invocation fills and every later one reads.
ContentForAIFromSharedBuffer(option, fullHtml) ==
  LET buffer == IF fullHtmlContent[1] # <<>> THEN fullHtmlContent[1] ELSE fullHtml
  IN  CASE option = "extract_body_strip_tags"   -> stripHtmlTags(extractBodyContent(buffer))
        [] option = "full_page_strip_tags"      -> stripHtmlTags(buffer)
        [] option = "full_page_ai_handles_html" -> buffer

\* The switch over validatedProcessingOption.
ContentForAI(option, fullHtml) ==
  CASE option = "extract_body_strip_tags"   -> stripHtmlTags(extractBodyContent(fullHtml))
    [] option = "full_page_strip_tags"      -> stripHtmlTags(fullHtml)
    [] option = "full_page_ai_handles_html" -> fullHtml

\* Faulty variant: the full page is stripped a second time.
NormalizerCallsTwice(option) ==
  CASE option = "extract_body_strip_tags"   -> <<"extractBodyContent", "stripHtmlTags">>
    [] option = "full_page_strip_tags"      -> <<"stripHtmlTags", "stripHtmlTags">>
    [] option = "full_page_ai_handles_html" -> <<>>

\* The normalizer calls the switch makes.
NormalizerCalls(option) ==
  CASE option = "extract_body_strip_tags"   -> <<"extractBodyContent", "stripHtmlTags">>
    [] option = "full_page_strip_tags"      -> <<"stripHtmlTags">>
    [] option = "full_page_ai_handles_html" -> <<>>

\* Faulty variant: the page is fetched before the mode is looked at.
RequestForFetchingFirst(option, url) ==
  [method |-> "GET", to |-> url, url |-> Null, outcome |-> "pending"]

\* The request the action issues once the input is validated: the POST of
\* {url} to the external API, or the GET of the URL.
RequestFor(option, url) ==
  IF option = "external_api"
  THEN [method |-> "POST", to |-> externalApiUrl, url |-> url, outcome |-> "pending"]
  ELSE [method |-> "GET", to |-> url, url |-> Null, outcome |-> "pending"]

\* How a request settled.
Settled(out) ==
  IF out.kind = "rejects" THEN "rejected" ELSE IF out.ok THEN "ok" ELSE "not ok"

\* Faulty variant: the size check rejects the bound itself.
FetchFailureAtTheBound(option, out) ==
  IF out.kind = "rejects" THEN "fetch failed"
  ELSE IF ~out.ok THEN "Failed to fetch URL: 404 Not Found"
  ELSE IF JsLength(out.text) >= MaxContentLength
  THEN "Content too large to process (max 5MB)."
  ELSE IF Trim(out.text) = <<>> THEN "Fetched content is empty."
  ELSE Null

\* Faulty variant: the warning about empty content is an error.
FetchFailureOnEmptyContent(option, out) ==
  IF out.kind = "rejects" THEN "fetch failed"
  ELSE IF ~out.ok THEN "Failed to fetch URL: 404 Not Found"
  ELSE IF JsLength(out.text) > MaxContentLength
  THEN "Content too large to process (max 5MB)."
  ELSE IF Trim(out.text) = <<>> THEN "Fetched content is empty."
  ELSE IF option # "full_page_ai_handles_html" /\ Trim(ContentForAI(option, out.text)) = <<>>
  THEN "Content became empty after local processing."
  ELSE Null

\* The message of the error thrown before the switch is reached (Null: none
\* is thrown).
FetchFailure(option, out) ==
  IF out.kind = "rejects" THEN "fetch failed"
  ELSE IF ~out.ok THEN "Failed to fetch URL: 404 Not Found"
  ELSE IF JsLength(out.text) > MaxContentLength
  THEN "Content too large to process (max 5MB)."
  ELSE IF Trim(out.text) = <<>> THEN "Fetched content is empty."
  ELSE Null

ReqInit ==
  /\ externalApiUrl \in {Null, "https://api.example.com/markdown"}
  /\ pc = [r \in Req |-> "idle"]
  /\ form = [r \in Req |-> [url |-> Null, processingOption |-> Null]]
  /\ fullHtmlContent = [r \in Req |-> <<>>]
  /\ contentForAI = [r \in Req |-> <<>>]
  /\ formatInput = [r \in Req |-> NoFormatInput]
  /\ state = [r \in Req |-> initialState]
  /\ log = [r \in Req |-> <<>>]
  /\ requests = [r \in Req |-> <<>>]
  /\ responseText = [r \in Req |-> Null]
  /\ formData = [r \in Req |-> [url |-> Null, processingOption |-> Null]]

FnIdle ==
  /\ parts = <<>>
  /\ html = <<>>
  /\ fn = "none"
  /\ text = <<>>

\* useForm's defaultValues.
PageIdle ==
  formValues = [url |-> "", processingOption |-> "extract_body_strip_tags"]

\* FloatingChat's useState initial values.
ChatIdle ==
  /\ isOpen = FALSE
  /\ messages = <<>>
  /\ inputValue = ""
  /\ isLoading = FALSE
  /\ chatCalls = <<>>

\* No component has called useTheme yet.
NoConsumer ==
  [inside |-> FALSE,
   result |-> [kind |-> "none", message |-> Null, theme |-> Null, setTheme |-> Null]]

\* ThemeProvider before its first render, over an empty storage.
ThemeIdle ==
  /\ theme = "system"
  /\ mounted = FALSE
  /\ storage = Null
  /\ rootClasses = {}
  /\ prefersDark = FALSE
  /\ applied = <<>>
  /\ consumer = NoConsumer

\* The action is invoked: validation, then the first await (the POST to the
\* external API, or the GET of the URL).
Submit(r, rawUrl, rawOption) ==
  /\ pc[r] = "idle"
  /\ formData' = [formData EXCEPT ![r] = [url |-> rawUrl, processingOption |-> rawOption]]
  /\ LET errorMessages == ValidationErrors(rawUrl, rawOption)
     IN  IF errorMessages # Null
         THEN /\ state' = [state EXCEPT ![r] =
                             [markdown |-> Null, error |-> errorMessages,
                              success |-> FALSE, submittedUrl |-> Null,
                              submittedProcessingOption |-> Null]]
              /\ pc' = [pc EXCEPT ![r] = "done"]
              /\ UNCHANGED <<form, log, requests>>
         ELSE /\ form' = [form EXCEPT ![r] = [url |-> rawUrl, processingOption |-> rawOption]]
              /\ IF rawOption = "external_api"
                 THEN IF externalApiUrl = Null
                      THEN /\ state' = [state EXCEPT ![r] =
                                 [Caught(r, "External API URL is not configured. Please set EXTERNAL_MARKDOWN_API_URL environment variable.")
                                    EXCEPT !.submittedUrl = rawUrl,
                                           !.submittedProcessingOption = rawOption]]
                           /\ pc' = [pc EXCEPT ![r] = "done"]
                           /\ UNCHANGED <<log, requests>>
                      ELSE /\ pc' = [pc EXCEPT ![r] = "posting"]
                           /\ log' = [log EXCEPT ![r] = Append(@, RequestFor(rawOption, rawUrl).method)]
                           /\ requests' = [requests EXCEPT ![r] = Append(@, RequestFor(rawOption, rawUrl))]
                           /\ UNCHANGED state
                 ELSE /\ pc' = [pc EXCEPT ![r] = "fetching"]
                      /\ log' = [log EXCEPT ![r] = Append(@, RequestFor(rawOption, rawUrl).method)]
                      /\ requests' = [requests EXCEPT ![r] = Append(@, RequestFor(rawOption, rawUrl))]
                      /\ UNCHANGED state
  /\ UNCHANGED <<externalApiUrl, fullHtmlContent, contentForAI, formatInput, responseText>>
  /\ UNCHANGED fnVars
  /\ UNCHANGED <<pageVars, chatVars, themeVars>>

\* The POST to the external API settles; the action runs to its return.
PostSettles(r, out) ==
  /\ pc[r] = "posting"
  /\ pc' = [pc EXCEPT ![r] = "done"]
  /\ state' = [state EXCEPT ![r] =
       IF out.kind = "rejects" THEN Caught(r, "fetch failed")
       ELSE IF ~out.ok THEN Caught(r, "External API request failed: 500 Internal Server Error.")
       ELSE LET b == out.body
                \* Every throw inside the inner try, the one for result.error
                \* included, lands in `catch (jsonError)`.
                markdownContent ==
                  IF ~b.parsed THEN b.text
                  ELSE IF b.error # Null THEN b.text
                  ELSE IF b.markdown # Null THEN b.markdown
                  ELSE b.text
            IN  IF IsBlank(markdownContent)
                THEN Caught(r, "External API response did not provide valid markdown content.")
                ELSE Succeeded(r, markdownContent)]
  /\ requests' = [requests EXCEPT ![r][Len(requests[r])].outcome = Settled(out)]
  /\ responseText' = [responseText EXCEPT ![r] =
       IF out.kind = "response" /\ out.ok THEN out.body.text ELSE @]
  /\ UNCHANGED <<externalApiUrl, form, fullHtmlContent, contentForAI, formatInput, log,
                 formData>>
  /\ UNCHANGED fnVars
  /\ UNCHANGED <<pageVars, chatVars, themeVars>>

\* The GET of the URL settles; the action runs the size and emptiness checks
\* and the switch, and calls formatURLToMarkdown (its next await).
FetchSettles(r, out) ==
  /\ pc[r] = "fetching"
  /\ LET option == form[r].processingOption
         failure == FetchFailure(option, out)
     IN  IF failure # Null
         THEN /\ state' = [state EXCEPT ![r] = Caught(r, failure)]
              /\ pc' = [pc EXCEPT ![r] = "done"]
              /\ fullHtmlContent' =
                   [fullHtmlContent EXCEPT ![r] = IF out.ok THEN out.text ELSE @]
              /\ UNCHANGED <<contentForAI, formatInput, log>>
         ELSE LET content == ContentForAI(option, out.text)
              IN  /\ fullHtmlContent' = [fullHtmlContent EXCEPT ![r] = out.text]
                  /\ contentForAI' = [contentForAI EXCEPT ![r] = content]
                  /\ formatInput' = [formatInput EXCEPT ![r] =
                       [url |-> form[r].url, content |-> content,
                        processingOption |-> option]]
                  /\ log' = [log EXCEPT ![r] =
                       @ \o NormalizerCalls(option) \o <<"formatURLToMarkdown">>]
                  /\ pc' = [pc EXCEPT ![r] = "formatting"]
                  /\ UNCHANGED state
  /\ requests' = [requests EXCEPT ![r][Len(requests[r])].outcome = Settled(out)]
  /\ UNCHANGED <<externalApiUrl, form, responseText, formData>>
  /\ UNCHANGED fnVars
  /\ UNCHANGED <<pageVars, chatVars, themeVars>>

\* formatURLToMarkdown settles; the action returns.
FormatSettles(r, out) ==
  /\ pc[r] = "formatting"
  /\ pc' = [pc EXCEPT ![r] = "done"]
  /\ state' = [state EXCEPT ![r] =
       IF out.kind = "rejects" THEN Caught(r, out.message)
       ELSE Succeeded(r, out.markdown)]
  /\ UNCHANGED <<externalApiUrl, form, fullHtmlContent, contentForAI, formatInput, log,
                 requests, responseText, formData>>
  /\ UNCHANGED fnVars
  /\ UNCHANGED <<pageVars, chatVars, themeVars>>

Init ==
  /\ ReqInit
  /\ FnIdle
  /\ PageIdle
  /\ ChatIdle
  /\ ThemeIdle

\* One invocation of the action, run from its call to its return.
Next ==
  \/ \E u \in RawUrls, o \in RawOptions : Submit(1, u, o)
  \/ \E out \in PostOutcomes : PostSettles(1, out)
  \/ \E out \in FetchOutcomes : FetchSettles(1, out)
  \/ \E out \in FormatOutcomes : FormatSettles(1, out)

\* Concurrent invocations, interleaved at their awaits.
NextConcurrent ==
  \/ \E r \in Req, u \in RawUrls, o \in RawOptions : Submit(r, u, o)
  \/ \E r \in Req, out \in PostOutcomes : PostSettles(r, out)
  \/ \E r \in Req, out \in FetchOutcomes : FetchSettles(r, out)
  \/ \E r \in Req, out \in FormatOutcomes : FormatSettles(r, out)

Spec == Init /\ [][Next]_vars

SpecConcurrent == Init /\ [][NextConcurrent]_vars

-----------------------------------------------------------------------------
(* The page: the form, the action state of useActionState and the alert.   *)

\* What the URL field of the form may hold.
FormUrls == RawUrls \cup {""}

\* formSchema, the schema of the form's resolver: the issues it finds.
formSchema(values) == ValidationErrors(values.url, values.processingOption)

\* The 'Error Processing URL' alert: the error it shows, Null when it is not
\* rendered.
ErrorAlert(st, values) ==
  IF /\ st.error \notin {Null, ""}
     /\ ~st.success
     /\ st.submittedUrl = values.url
     /\ st.submittedProcessingOption = values.processingOption
  THEN st.error
  ELSE Null

\* The user edits the URL field or picks another processing option.
ChangeForm(u, o) ==
  /\ formValues # [url |-> u, processingOption |-> o]
  /\ formValues' = [url |-> u, processingOption |-> o]
  /\ UNCHANGED <<reqVars, fnVars, chatVars, themeVars>>

\* handleSubmit(onSubmit): when the resolver finds no issue, the form values
\* are put into a FormData and the action is dispatched with it.
onSubmit ==
  /\ formSchema(formValues) = Null
  /\ Submit(1, formValues.url, formValues.processingOption)

\* The action is dispatched with form data that did not pass the resolver of
\* the form.
formAction(u, o) ==
  /\ ValidationErrors(u, o) # Null
  /\ Submit(1, u, o)

InitPage ==
  /\ ReqInit
  /\ FnIdle
  /\ PageIdle
  /\ ChatIdle
  /\ ThemeIdle

NextPage ==
  \/ \E u \in FormUrls, o \in ProcessingOptionsEnum : ChangeForm(u, o)
  \/ onSubmit
  \/ \E u \in RawUrls, o \in RawOptions : formAction(u, o)
  \/ \E out \in PostOutcomes : PostSettles(1, out)
  \/ \E out \in FetchOutcomes : FetchSettles(1, out)
  \/ \E out \in FormatOutcomes : FormatSettles(1, out)

SpecPage == InitPage /\ [][NextPage]_vars

-----------------------------------------------------------------------------
(* The chat panel: FloatingChat and the server action it calls.            *)

\* The messages a behaviour may send.
MaxChatCalls == 2

\* What the user may type into the input.
ChatInputs == {"", "  ", "hi", "why?"}

\* What chatWithMarkdown may settle with: an answer of the model (the output
\* schema admits the empty string), or a rejection with the error's message.
ChatFlowOutcomes ==
  {[kind |-> "resolves", agentResponse |-> "An answer", message |-> Null],
   [kind |-> "resolves", agentResponse |-> "", message |-> Null],
   [kind |-> "rejects", agentResponse |-> Null, message |-> ""],
   [kind |-> "rejects", agentResponse |-> Null, message |-> "Model request failed"],
   [kind |-> "rejects", agentResponse |-> Null,
    message |-> "Request failed, reason: quota exceeded"]}

\* error.message.split('reason: ')[1], Null when the message has no 'reason: '.
AfterReason(message) ==
  IF message = "Request failed, reason: quota exceeded" THEN "quota exceeded" ELSE Null

\* The ChatAgentState callChatAgentAction returns.
callChatAgentAction(out) ==
  IF out.kind = "resolves"
  THEN [agentResponse |-> out.agentResponse, error |-> Null]
  ELSE LET errorMessage ==
             IF out.message = "" THEN "Failed to get response from agent."
             ELSE IF AfterReason(out.message) # Null THEN AfterReason(out.message)
             ELSE out.message
       IN  [agentResponse |-> Null, error |-> errorMessage]

\* How the call of the server action may settle on the client: with the
\* state the action returned, or with a rejection (the request did not get
\* through).
ChatOutcomes ==
  {[kind |-> "returns", response |-> callChatAgentAction(out)] : out \in ChatFlowOutcomes}
    \cup {[kind |-> "rejects", response |-> [agentResponse |-> Null, error |-> Null]]}

\* `Sorry, I encountered an error: ${response.error}`
ErrorNotice(error) ==
  CASE error = "Failed to get response from agent."
         -> "Sorry, I encountered an error: Failed to get response from agent."
    [] error = "Model request failed"
         -> "Sorry, I encountered an error: Model request failed"
    [] error = "quota exceeded"
         -> "Sorry, I encountered an error: quota exceeded"

\* The markdownContent prop: the markdown of the page's action state.
markdownContent == state[1].markdown

\* The greeting the panel puts into an empty transcript when it opens.
Greeting ==
  [role |-> "ai",
   text |-> IF markdownContent \notin {Null, ""}
            THEN "Hello! I'm ready to discuss the Markdown content you've fetched. Ask me anything about it!"
            ELSE "Hello! I'm your AI assistant. Fetch some Markdown content or ask me general questions."]

\* Faulty variant of the guard: a blank input is accepted.
ReturnsEarlyOnlyWhileLoading(input, loading) == loading

\* The guard of handleSendMessage: `!inputValue.trim() || isLoading`.
ReturnsEarly(input, loading) == IsBlank(input) \/ loading

\* Faulty variant: the current message is left in the history.
HistoryForAIWithCurrent(msgs, current) ==
  LET historyForAI ==
        [i \in 1..Len(msgs) |->
           [role |-> IF msgs[i].role = "ai" THEN "model" ELSE "user",
            text |-> msgs[i].text]]
  IN  Append(historyForAI, [role |-> "user", text |-> current])

\* The chatHistory of a call: the rendered messages with 'ai' mapped to
\* 'model', the current message pushed and sliced off again.
HistoryForAI(msgs, current) ==
  LET historyForAI ==
        [i \in 1..Len(msgs) |->
           [role |-> IF msgs[i].role = "ai" THEN "model" ELSE "user",
            text |-> msgs[i].text]]
      pushed == Append(historyForAI, [role |-> "user", text |-> current])
  IN  SubSeq(pushed, 1, Len(pushed) - 1)

\* The floating button: the panel opens, and the effect greets when the
\* transcript is empty.
OpenChat ==
  /\ ~isOpen
  /\ isOpen' = TRUE
  /\ messages' = IF messages = <<>> THEN <<Greeting>> ELSE messages
  /\ UNCHANGED <<inputValue, isLoading, chatCalls>>
  /\ UNCHANGED <<reqVars, fnVars, pageVars, themeVars>>

\* The close button of the panel.
CloseChat ==
  /\ isOpen
  /\ isOpen' = FALSE
  /\ UNCHANGED <<messages, inputValue, isLoading, chatCalls>>
  /\ UNCHANGED <<reqVars, fnVars, pageVars, themeVars>>

\* The user types: the input is there while the panel is open and enabled
\* while no request is awaited.
ChangeInput(v) ==
  /\ isOpen
  /\ ~isLoading
  /\ inputValue # v
  /\ inputValue' = v
  /\ UNCHANGED <<isOpen, messages, isLoading, chatCalls>>
  /\ UNCHANGED <<reqVars, fnVars, pageVars, themeVars>>

\* The form of the panel is submitted: handleSendMessage up to its await.
handleSendMessage ==
  /\ isOpen
  /\ Len(chatCalls) < MaxChatCalls
  /\ IF ReturnsEarly(inputValue, isLoading)
     THEN UNCHANGED <<messages, inputValue, isLoading, chatCalls>>
     ELSE /\ messages' = Append(messages, [role |-> "user", text |-> inputValue])
          /\ inputValue' = ""
          /\ isLoading' = TRUE
          /\ chatCalls' = Append(chatCalls,
               [userQuery |-> inputValue,
                markdownContent |-> markdownContent,
                chatHistory |-> HistoryForAI(messages, inputValue),
                outcome |-> "pending"])
  /\ UNCHANGED isOpen
  /\ UNCHANGED <<reqVars, fnVars, pageVars, themeVars>>

\* The awaited call settles: handleSendMessage from its await to its end.
ChatSettles(out) ==
  /\ chatCalls # <<>>
  /\ chatCalls[Len(chatCalls)].outcome = "pending"
  /\ messages' =
       IF out.kind = "rejects"
       THEN Append(messages,
              [role |-> "ai", text |-> "Sorry, I could not reach the assistant at the moment."])
       ELSE IF out.response.agentResponse \notin {Null, ""}
       THEN Append(messages, [role |-> "ai", text |-> out.response.agentResponse])
       ELSE IF out.response.error \notin {Null, ""}
       THEN Append(messages, [role |-> "ai", text |-> ErrorNotice(out.response.error)])
       ELSE messages
  /\ isLoading' = FALSE
  /\ chatCalls' = [chatCalls EXCEPT ![Len(chatCalls)].outcome = out.kind]
  /\ UNCHANGED <<isOpen, inputValue>>
  /\ UNCHANGED <<reqVars, fnVars, pageVars, themeVars>>

InitChat ==
  /\ ReqInit
  /\ FnIdle
  /\ PageIdle
  /\ ChatIdle
  /\ ThemeIdle

NextChat ==
  \/ OpenChat
  \/ CloseChat
  \/ \E v \in ChatInputs : ChangeInput(v)
  \/ handleSendMessage
  \/ \E out \in ChatOutcomes : ChatSettles(out)

SpecChat == InitChat /\ [][NextChat]_vars

-----------------------------------------------------------------------------
(* The theme: ThemeProvider, its two effects, setTheme and useTheme.       *)

\* The themes of the type Theme, which setTheme is called with.
Themes == {"light", "dark", "system"}

defaultTheme == "system"

\* localStorage cannot be accessed: getItem and setItem throw.
Blocked == "<blocked>"

\* What may stand under the storage key when the provider mounts: nothing,
\* a theme, or any other string.
StoredValues == {Null, "", "blue", Blocked} \cup Themes

\* The default value of ThemeProviderContext: createContext(initialState).
ThemeProviderContext ==
  [defined |-> TRUE, theme |-> "system", setTheme |-> "() => null"]

\* useContext(ThemeProviderContext), inside a ThemeProvider and outside of one.
useContext(inside) ==
  IF inside
  THEN [defined |-> TRUE, theme |-> theme, setTheme |-> "setTheme"]
  ELSE ThemeProviderContext

\* useTheme: throws when the context is undefined, returns it otherwise.
useTheme(context) ==
  IF ~context.defined
  THEN [kind |-> "thrown", message |-> "useTheme must be used within a ThemeProvider",
        theme |-> Null, setTheme |-> Null]
  ELSE [kind |-> "returned", message |-> Null,
        theme |-> context.theme, setTheme |-> context.setTheme]

\* The class the second effect adds for a theme.
CurrentTheme(t) ==
  IF t = "system" THEN (IF prefersDark THEN "dark" ELSE "light") ELSE t

\* The effects of the first commit: the first effect marks the provider as
\* mounted and loads the stored theme; the second effect, still with
\* mounted = false, returns at once.
Mount ==
  /\ ~mounted
  /\ mounted' = TRUE
  /\ theme' = IF storage \notin {Null, "", Blocked} THEN storage ELSE defaultTheme
  /\ applied' = <<theme, mounted>>
  /\ UNCHANGED <<storage, rootClasses, prefersDark, consumer>>
  /\ UNCHANGED <<reqVars, fnVars, pageVars, chatVars>>

\* The second effect, run again because theme or mounted changed.
ApplyTheme ==
  /\ mounted
  /\ applied # <<theme, mounted>>
  /\ applied' = <<theme, mounted>>
  /\ rootClasses' = (rootClasses \ {"light", "dark"}) \cup {CurrentTheme(theme)}
  /\ UNCHANGED <<theme, mounted, storage, prefersDark, consumer>>
  /\ UNCHANGED <<reqVars, fnVars, pageVars, chatVars>>

\* setTheme(newTheme): the theme is stored, if the storage lets it, and set.
setTheme(newTheme) ==
  /\ mounted
  /\ storage' = IF storage = Blocked THEN storage ELSE newTheme
  /\ theme' = newTheme
  /\ UNCHANGED <<mounted, rootClasses, prefersDark, applied, consumer>>
  /\ UNCHANGED <<reqVars, fnVars, pageVars, chatVars>>

\* A component calls useTheme, inside the provider or outside of it.
CallUseTheme(inside) ==
  /\ consumer' = [inside |-> inside, result |-> useTheme(useContext(inside))]
  /\ consumer' # consumer
  /\ UNCHANGED <<theme, mounted, storage, rootClasses, prefersDark, applied>>
  /\ UNCHANGED <<reqVars, fnVars, pageVars, chatVars>>

InitTheme ==
  /\ ReqInit
  /\ FnIdle
  /\ PageIdle
  /\ ChatIdle
  /\ theme = defaultTheme
  /\ mounted = FALSE
  /\ storage \in StoredValues
  /\ rootClasses = {}
  /\ prefersDark \in BOOLEAN
  /\ applied = <<>>
  /\ consumer = NoConsumer

NextTheme ==
  \/ Mount
  \/ ApplyTheme
  \/ \E t \in Themes : setTheme(t)
  \/ \E inside \in BOOLEAN : CallUseTheme(inside)

SpecTheme == InitTheme /\ [][NextTheme]_vars

----------------------------------------------------------------------------
(* The normalizer on its own: an input is put together from parts, and one *)
(* of the functions is applied to it.                                      *)

RECURSIVE Flatten(_)
Flatten(ps) ==
  IF ps = <<>> THEN <<>> ELSE Head(ps) \o Flatten(Tail(ps))

\* All sequences of at most n parts drawn from F.
PartsUpTo(F, n) ==
  UNION {[1..k -> F] : k \in 0..n}

MaxBodyParts == 4
MaxTagParts == 3
MaxEntityParts == 3
MaxSpaceParts == 4
MaxMalformedParts == 3

BodyFragments ==
  { <<"<", "b", "o", "d", "y", ">">>,
      <<"<", "B", "O", "D", "Y", " ", "i", "d", "=", "m", ">">>,
      <<"<", "/", "b", "o", "d", "y", ">">>,
      <<"<", "/", "B", "o", "d", "y", ">">>,
      <<" ">>,
      <<"\n">>,
      <<" ", "a", "\n">>,
      <<"<", "b", "o", "d", "y">> }

TagFragments ==
  { <<"<">>,
      <<">">>,
      <<"b">>,
      <<"<", "b", ">">>,
      <<" ">>,
      <<"&", "l", "t", ";">>,
      <<"&", "g", "t", ";">>,
      <<"&", "l">>,
      <<"t", ";">>,
      <<"<", "/", "p", ">">>,
      <<"<", "b", "r", ">">> }

\* Whitespace of every kind around text, a block tag, a rule, an entity and
\* the empty pair <>, which is no tag.
SpaceFragments ==
  { <<" ">>,
      <<"\n">>,
      <<"\t", "\n">>,
      <<"a">>,
      <<"<", "p", ">">>,
      <<"<", "h", "r", ">">>,
      <<"&", "n", "b", "s", "p", ";">>,
      <<"<", ">">> }

\* Pieces of malformed markup: tags and elements left open, stray brackets.
MalformedFragments ==
  { <<"<", "s", "c", "r", "i", "p", "t", ">">>,
      <<"<", "/", "s", "c", "r", "i", "p", "t", ">">>,
      <<"<", "s", "t", "y", "l", "e">>,
      <<"<", "b", "o", "d", "y", ">">>,
      <<"<", "p">>,
      <<"<">>,
      <<">">>,
      <<"a", "&", "b", "o", "g", "u", "s", ";">> }

EntityFragments ==
  { <<"&", "n", "b", "s", "p", ";">>,
      <<"&", "l", "t", ";">>,
      <<"&", "g", "t", ";">>,
      <<"&", "a", "m", "p", ";">>,
      <<"&", "q", "u", "o", "t", ";">>,
      <<"&", "#", "3", "9", ";">>,
      <<"&", "c", "o", "p", "y", ";">>,
      <<"&", "r", "e", "g", ";">>,
      <<"&", "m", "d", "a", "s", "h", ";">>,
      <<"&", "#", "1", "6", "0", ";">>,
      <<"A">>,
      <<"B">>,
      <<"q", "u", "o", "t", ";">>,
      <<"&", "N", "B", "S", "P", ";">> }

\* Texts without "<" and ">".
MarkupFree ==
  { <<>>,
      <<" ">>,
      <<"x">>,
      <<"x", " ">>,
      <<"\n", "x", "\n">>,
      <<"&", "n", "b", "s", "p", ";">>,
      <<"a", "&", "a", "m", "p", ";", "b">>,
      <<"y", " ", "\n", " ", "z">> }

\* The texts around a script or style element (a part of MarkupFree).
Around ==
  { <<>>,
    <<"x", " ">>,
    <<"a", "&", "a", "m", "p", ";", "b", "\n">> }

ScriptOpenTags ==
  { <<"<", "s", "c", "r", "i", "p", "t", ">">>,
      <<"<", "S", "C", "R", "I", "P", "T", ">">>,
      <<"<", "s", "c", "r", "i", "p", "t", " ", "s", "r", "c", "=", "\"", "a", ".", "j", "s", "\"", ">">>,
      <<"<", "S", "c", "r", "i", "p", "t", "\n", "t", "y", "p", "e", "=", "m", ">">> }

ScriptCloseTags ==
  { <<"<", "/", "s", "c", "r", "i", "p", "t", ">">>,
      <<"<", "/", "S", "C", "R", "I", "P", "T", ">">> }

StyleOpenTags ==
  { <<"<", "s", "t", "y", "l", "e", ">">>,
      <<"<", "S", "T", "Y", "L", "E", ">">>,
      <<"<", "s", "t", "y", "l", "e", " ", "m", "e", "d", "i", "a", "=", "a", "l", "l", ">">> }

StyleCloseTags ==
  { <<"<", "/", "s", "t", "y", "l", "e", ">">>,
      <<"<", "/", "S", "t", "y", "l", "e", ">">> }

\* What may stand inside a script or style element: no closing script or
\* style tag.
ElementContents ==
  { <<>>,
      <<"a", "l", "e", "r", "t", "(", "1", ")">>,
      <<"a", "<", "b">>,
      <<"x", ">", "y">>,
      <<"<", "p", ">", "k", "<", "/", "p", ">">>,
      <<"<", "/", "p", ">", "\n">>,
      <<"<", "s", "c", "r", "i", "p", "t", ">">>,
      <<"<", "s", "t", "y", "l", "e", ">">>,
      <<"&", "l", "t", ";">>,
      <<"<", "/", "s", "c", "r", "i", "p", "t", " ", ">">> }

SafeParagraph == <<"<", "p", ">", "S", "a", "f", "e", "<", "/", "p", ">">>

HrTags ==
  { <<"<", "h", "r", ">">>,
      <<"<", "h", "r", "/", ">">>,
      <<"<", "H", "R", ">">>,
      <<"<", "h", "r", " ", "/", ">">> }

Words ==
  { <<"H", "e", "l", "l", "o">>,
      <<"W", "o", "r", "l", "d">> }

InlineTags ==
  { <<"s", "p", "a", "n">>,
      <<"b">>,
      <<"e", "m">>,
      <<"p", "r", "e">> }

\* <NAME>, <NAME class=k> or the upper-case <NAME> ...
Upper(c) ==
  LET U == {u \in DOMAIN UpperToLower : UpperToLower[u] = c}
  IN  IF U = {} THEN c ELSE CHOOSE u \in U : TRUE

OpeningTag(name, variant) ==
  CASE variant = "plain" -> <<"<">> \o name \o <<">">>
    [] variant = "attrs" -> <<"<">> \o name \o <<" ", "c", "l", "a", "s", "s", "=", "k", ">">>
    [] variant = "upper" -> <<"<">> \o [i \in 1..Len(name) |-> Upper(name[i])] \o <<">">>

\* ... and </NAME> or </NAME> in upper case.
ClosingTag(name, variant) ==
  IF variant = "upper"
  THEN <<"<", "/">> \o [i \in 1..Len(name) |-> Upper(name[i])] \o <<">">>
  ELSE <<"<", "/">> \o name \o <<">">>

TagVariants == {"plain", "attrs", "upper"}

\* <body><t>x</t><t>y</t></body>
TwoElements(name, variant, x, y) ==
  << <<"<", "b", "o", "d", "y", ">">>,
     OpeningTag(name, variant), x, ClosingTag(name, variant),
     OpeningTag(name, variant), y, ClosingTag(name, variant),
     <<"<", "/", "b", "o", "d", "y", ">">> >>

Range(f) == {f[i] : i \in DOMAIN f}

FnInit(inputs) ==
  /\ parts \in inputs
  /\ html = Flatten(parts)
  /\ fn = "none"
  /\ text = <<>>

ReqIdle ==
  /\ externalApiUrl = Null
  /\ pc = [r \in Req |-> "idle"]
  /\ form = [r \in Req |-> [url |-> Null, processingOption |-> Null]]
  /\ fullHtmlContent = [r \in Req |-> <<>>]
  /\ contentForAI = [r \in Req |-> <<>>]
  /\ formatInput = [r \in Req |-> NoFormatInput]
  /\ state = [r \in Req |-> initialState]
  /\ log = [r \in Req |-> <<>>]
  /\ requests = [r \in Req |-> <<>>]
  /\ responseText = [r \in Req |-> Null]
  /\ formData = [r \in Req |-> [url |-> Null, processingOption |-> Null]]

\* extractBodyContent(html)
ApplyExtract ==
  /\ fn = "none"
  /\ fn' = "extractBodyContent"
  /\ text' = extractBodyContent(html)
  /\ UNCHANGED <<parts, html>>
  /\ UNCHANGED reqVars
  /\ UNCHANGED <<pageVars, chatVars, themeVars>>

\* stripHtmlTags(html)
ApplyStrip ==
  /\ fn = "none"
  /\ fn' = "stripHtmlTags"
  /\ text' = stripHtmlTags(html)
  /\ UNCHANGED <<parts, html>>
  /\ UNCHANGED reqVars
  /\ UNCHANGED <<pageVars, chatVars, themeVars>>

\* The normalizer as the switch of fetchAndFormat applies it.
ApplyNormalizer(option) ==
  /\ fn = "none"
  /\ fn' = option
  /\ text' = ContentForAI(option, html)
  /\ UNCHANGED <<parts, html>>
  /\ UNCHANGED reqVars
  /\ UNCHANGED <<pageVars, chatVars, themeVars>>

BodyInputs == PartsUpTo(BodyFragments, MaxBodyParts)

InitBody == ReqIdle /\ FnInit(BodyInputs) /\ PageIdle /\ ChatIdle /\ ThemeIdle

SpecBody ==
  /\ InitBody
  /\ [][ApplyExtract]_vars

\* a <script ...> c </script> b, and the same with style
ScriptInputs ==
  {<<a, o, c, e, b>> : a \in Around, o \in ScriptOpenTags, c \in ElementContents,
                       e \in ScriptCloseTags, b \in Around \cup {SafeParagraph}}
    \cup
  {<<a, o, c, e, b>> : a \in Around, o \in StyleOpenTags, c \in ElementContents,
                       e \in StyleCloseTags, b \in Around \cup {SafeParagraph}}

InitScript == ReqIdle /\ FnInit(ScriptInputs) /\ PageIdle /\ ChatIdle /\ ThemeIdle

SpecScript ==
  /\ InitScript
  /\ [][ApplyStrip]_vars

TagInputs == PartsUpTo(TagFragments, MaxTagParts)

InitTags == ReqIdle /\ FnInit(TagInputs) /\ PageIdle /\ ChatIdle /\ ThemeIdle

SpecTags ==
  /\ InitTags
  /\ [][ApplyStrip]_vars

BlockInputs ==
  {TwoElements(t, v, x, y) : t \in Range(blockTags) \cup InlineTags, v \in TagVariants,
                             x \in Words, y \in Words}

InitBlock == ReqIdle /\ FnInit(BlockInputs) /\ PageIdle /\ ChatIdle /\ ThemeIdle

SpecBlock ==
  /\ InitBlock
  /\ [][ApplyNormalizer("extract_body_strip_tags")]_vars

EntityInputs == PartsUpTo(EntityFragments, MaxEntityParts)

InitEntity == ReqIdle /\ FnInit(EntityInputs) /\ PageIdle /\ ChatIdle /\ ThemeIdle

SpecEntity ==
  /\ InitEntity
  /\ [][ApplyStrip]_vars

HrInputs ==
  {<<a, h, b>> : a \in MarkupFree, h \in HrTags, b \in MarkupFree}

InitHr == ReqIdle /\ FnInit(HrInputs) /\ PageIdle /\ ChatIdle /\ ThemeIdle

SpecHr ==
  /\ InitHr
  /\ [][ApplyStrip]_vars

\* The three final statements of stripHtmlTags, applied to html.
ApplyWhitespace ==
  /\ fn = "none"
  /\ fn' = "normalizeWhitespace"
  /\ text' = NormalizeWhitespace(html)
  /\ UNCHANGED <<parts, html>>
  /\ UNCHANGED reqVars
  /\ UNCHANGED <<pageVars, chatVars, themeVars>>

SpaceInputs == PartsUpTo(SpaceFragments, MaxSpaceParts)

InitSpace == ReqIdle /\ FnInit(SpaceInputs) /\ PageIdle /\ ChatIdle /\ ThemeIdle

SpecSpace ==
  /\ InitSpace
  /\ [][ApplyStrip \/ ApplyWhitespace]_vars

MalformedInputs == PartsUpTo(MalformedFragments, MaxMalformedParts)

InitMalformed == ReqIdle /\ FnInit(MalformedInputs) /\ PageIdle /\ ChatIdle /\ ThemeIdle

SpecMalformed ==
  /\ InitMalformed
  /\ [][ApplyExtract \/ ApplyStrip]_vars

----------------------------------------------------------------------------
(* Properties                                                              *)

\* The literal w occurs in s.
Contains(s, w) ==
  \E i \in 1..Len(s) : LitAt(s, i, w, FALSE)

StartsWith(s, w) == LitAt(s, 1, w, FALSE)
EndsWith(s, w)   == LitAt(s, Len(s) - Len(w) + 1, w, FALSE)

\* s holds a tag: "<", one or more characters other than ">", and ">".
HasTag(s) ==
  \E i \in 1..Len(s) : \E j \in (i + 2)..Len(s) :
    /\ s[i] = "<"
    /\ s[j] = ">"
    /\ \A k \in (i + 1)..(j - 1) : s[k] # ">"

NoAngle(s) ==
  \A i \in 1..Len(s) : s[i] \notin {"<", ">"}

\* The fetched page of invocation r passed the size and emptiness checks.
PassedChecks(r) ==
  /\ pc[r] \in {"formatting", "done"}
  /\ form[r].processingOption \in ProcessingOptionsEnum \ {"external_api"}
  /\ JsLength(fullHtmlContent[r]) <= MaxContentLength
  /\ Trim(fullHtmlContent[r]) # <<>>

\* C1: for a fetched page that passes the checks, formatURLToMarkdown receives
\* the validated URL, the mode tag, and as content stripHtmlTags(extractBodyContent(h))
\* in mode extract_body_strip_tags and stripHtmlTags(h) in mode full_page_strip_tags.
C1_ModeDispatch ==
  \A r \in Req :
    LET h == fullHtmlContent[r]
        o == form[r].processingOption
    IN  (PassedChecks(r) /\ o \in {"extract_body_strip_tags", "full_page_strip_tags"})
          => formatInput[r] =
               [url |-> form[r].url,
                content |-> IF o = "extract_body_strip_tags"
                            THEN stripHtmlTags(extractBodyContent(h))
                            ELSE stripHtmlTags(h),
                processingOption |-> o]

C1_Witness ==
  \E r \in Req :
    /\ pc[r] = "formatting"
    /\ form[r].processingOption = "extract_body_strip_tags"
    /\ formatInput[r].url = "https://example.com/post"
    /\ formatInput[r].content # stripHtmlTags(fullHtmlContent[r])
    /\ formatInput[r].content # <<>>

\* C2: in mode full_page_ai_handles_html the content handed to the formatter
\* is the fetched HTML, character for character, and no normalizer function
\* was called on it.
C2_RawModeUnchanged ==
  \A r \in Req :
    (PassedChecks(r) /\ form[r].processingOption = "full_page_ai_handles_html")
      => /\ formatInput[r].content = fullHtmlContent[r]
         /\ \A i \in 1..Len(log[r]) : log[r][i] \notin {"extractBodyContent", "stripHtmlTags"}
         /\ \E i \in 1..Len(log[r]) : log[r][i] = "formatURLToMarkdown"

C2_Witness ==
  \E r \in Req :
    /\ pc[r] = "formatting"
    /\ form[r].processingOption = "full_page_ai_handles_html"
    /\ formatInput[r].content = fullHtmlContent[r]
    /\ Trim(fullHtmlContent[r]) # fullHtmlContent[r]
    /\ HasTag(fullHtmlContent[r])

\* The body element as the claims read it: the first "<body", any characters
\* other than ">", ">" (position 0: there is none) ...
BodyOpenAt(s) ==
  FirstOf({i \in 1..Len(s) : /\ LitAt(s, i, BodyOpen, TRUE)
                             /\ \E j \in (i + Len(BodyOpen))..Len(s) : s[j] = ">"}, 0)

\* ... the ">" that ends this opening tag ...
BodyOpenEnd(s) ==
  FirstOf({j \in (BodyOpenAt(s) + Len(BodyOpen))..Len(s) : s[j] = ">"}, 0)

\* ... and the first "</body>" after it (0: there is none).
BodyCloseAt(s) ==
  IF BodyOpenAt(s) = 0 THEN 0
  ELSE FirstOf({c \in (BodyOpenEnd(s) + 1)..Len(s) : LitAt(s, c, BodyClose, TRUE)}, 0)

HasBodyElement(s) == BodyCloseAt(s) # 0

BodyInner(s) == SubSeq(s, BodyOpenEnd(s) + 1, BodyCloseAt(s) - 1)

\* C3: when the content of the body element is empty after trimming,
\* extractBodyContent returns the original input unchanged.
C3_BlankBodyReturnsInput ==
  (fn = "extractBodyContent" /\ HasBodyElement(html) /\ Trim(BodyInner(html)) = <<>>)
    => text = html

\* C4: an input with no <body ...> opening tag, or with an opening tag and no
\* </body> after it, is returned unchanged and untrimmed.
C4_NoBodyIdentity ==
  (fn = "extractBodyContent" /\ ~HasBodyElement(html)) => text = html

C4_Witness ==
  /\ fn = "extractBodyContent"
  /\ BodyOpenAt(html) # 0
  /\ ~HasBodyElement(html)
  /\ Trim(html) # html
  /\ text = html

\* C5: when the body element (first opening tag, first </body> after it) has
\* non-blank content, extractBodyContent returns exactly that content, trimmed.
C5_BodyContentTrimmed ==
  (fn = "extractBodyContent" /\ HasBodyElement(html) /\ Trim(BodyInner(html)) # <<>>)
    => text = Trim(BodyInner(html))

C5_Witness ==
  /\ fn = "extractBodyContent"
  /\ HasBodyElement(html)
  /\ BodyOpenAt(html) > 1
  /\ BodyOpenEnd(html) > BodyOpenAt(html) + Len(BodyOpen)
  /\ BodyInner(html) # Trim(BodyInner(html))
  /\ text = <<"a">>

\* C6: a script or style element is removed with its content: stripping
\* a <script ATTRS> c </script> b gives what stripping a b gives (a and b
\* free of markup, c without a closing script or style tag), and
\* <script>alert(1)</script><p>Safe</p> yields exactly Safe.
C6_ScriptAndStyleRemoved ==
  fn = "stripHtmlTags"
    => /\ NoAngle(parts[5]) => text = stripHtmlTags(parts[1] \o parts[5])
       /\ html = <<"<", "s", "c", "r", "i", "p", "t", ">", "a", "l", "e", "r", "t", "(", "1", ")", "<", "/", "s", "c", "r", "i", "p", "t", ">", "<", "p", ">", "S", "a", "f", "e", "<", "/", "p", ">">>
            => text = <<"S", "a", "f", "e">>

C6_Witness ==
  /\ fn = "stripHtmlTags"
  /\ parts[1] # <<>>
  /\ parts[2] = <<"<", "S", "c", "r", "i", "p", "t", "\n", "t", "y", "p", "e", "=", "m", ">">>
  /\ parts[3] = <<"x", ">", "y">>
  /\ NoAngle(parts[5])
  /\ text = <<"x", " ", "x">>

\* C7, as claimed: the output of stripHtmlTags contains no tag.
C7_OutputHasNoTag ==
  fn = "stripHtmlTags" => ~HasTag(text)

\* C7, amended: the text right after the tag-removal step contains no tag,
\* and the output contains one only if that text held an &lt; or &gt; entity
\* for the decoding step to turn into "<" or ">".
C7_NoTagAfterRemoval ==
  fn = "stripHtmlTags"
    => LET t == StripMarkup(html)
       IN  /\ ~HasTag(t)
           /\ (~Contains(t, entities[2].name) /\ ~Contains(t, entities[3].name))
                => ~HasTag(text)

C7_Witness ==
  /\ fn = "stripHtmlTags"
  /\ HasTag(html)
  /\ ~Contains(StripMarkup(html), entities[2].name)
  /\ ~Contains(StripMarkup(html), entities[3].name)
  /\ ~HasTag(text)
  /\ Contains(text, <<"b", ">">>)

\* The parts of <body><t>x</t><t>y</t></body>: the name t, x and y.
ElementName(ps) ==
  [i \in 1..(Len(ps[4]) - 3) |-> Lower(ps[4][i + 2])]

\* C8: for a block-level tag t, <body><t>x</t><t>y</t></body> normalizes to
\* x, a blank line, y, with no "<" or ">" left; an inline tag inserts no line
\* break.
C8_BlockTagsBreakParagraphs ==
  fn = "extract_body_strip_tags"
    => /\ NoAngle(text)
       /\ text = IF ElementName(parts) \in Range(blockTags)
                 THEN parts[3] \o <<"\n", "\n">> \o parts[6]
                 ELSE parts[3] \o parts[6]

C8_Witness ==
  /\ fn = "extract_body_strip_tags"
  /\ parts[2] = <<"<", "F", "I", "G", "C", "A", "P", "T", "I", "O", "N", ">">>
  /\ text = <<"H", "e", "l", "l", "o", "\n", "\n", "W", "o", "r", "l", "d">>

\* What the entity table says of a text: one pass from the left in which each
\* entity of the table becomes its character and everything else stays.
RECURSIVE DecodedOnceFrom(_, _)
DecodedOnceFrom(s, i) ==
  LET named(p) == {k \in 1..Len(entities) : LitAt(s, p, entities[k].name, FALSE)}
      at == FirstOf({p \in i..Len(s) : named(p) # {}}, 0)
  IN  IF at = 0 THEN SubSeq(s, i, Len(s))
      ELSE LET e == entities[CHOOSE k \in named(at) : TRUE]
           IN  SubSeq(s, i, at - 1) \o <<e.char>> \o DecodedOnceFrom(s, at + Len(e.name))

\* C9: in tag-free input each entity of the table is replaced by its
\* character and every other entity token stays as it is (the whitespace
\* normalization then applies); A&nbsp;B yields A B.
C9_EntityTable ==
  fn = "stripHtmlTags"
    => /\ text = NormalizeWhitespace(DecodedOnceFrom(html, 1))
       /\ html = <<"A", "&", "n", "b", "s", "p", ";", "B">> => text = <<"A", " ", "B">>

\* C10, as claimed: every <hr> or <hr/> shows up in the output as newline,
\* newline, ---, newline, newline, also at the very start or end of the input.
C10_HrIsThematicBreak ==
  fn = "stripHtmlTags" => Contains(text, ThematicBreak)

\* C10, amended: an <hr> between texts a and b free of "<" and ">" shows up as
\* --- set off by a blank line from the visible text on either side; where
\* only whitespace precedes (follows) it, the output starts (ends) with ---.
C10_HrSetOffByBlankLines ==
  fn = "stripHtmlTags"
    => LET before == stripHtmlTags(parts[1])
           after  == stripHtmlTags(parts[3])
           rule   == <<"-", "-", "-">>
       IN  /\ IF before = <<>> THEN StartsWith(text, rule)
              ELSE Contains(text, <<"\n", "\n">> \o rule)
           /\ IF after = <<>> THEN EndsWith(text, rule)
              ELSE Contains(text, rule \o <<"\n", "\n">>)
           /\ (before # <<>> /\ after # <<>>) => Contains(text, ThematicBreak)

C10_Witness ==
  /\ fn = "stripHtmlTags"
  /\ parts[1] = <<"x", " ">>
  /\ parts[2] = <<"<", "h", "r", " ", "/", ">">>
  /\ parts[3] = <<"y", " ", "\n", " ", "z">>
  /\ text = <<"x", " ", "\n", "\n", "-", "-", "-", "\n", "\n", "y", " ", "\n", " ", "z">>

\* A stretch of whitespace of s from i to j, both ends newlines.
BlankStretch(s, i, j) ==
  /\ s[i] = "\n"
  /\ s[j] = "\n"
  /\ \A k \in i..j : IsSpace(s[k])

\* C11: the output of stripHtmlTags never holds three newlines in a row, and
\* two newlines with nothing but whitespace between them are adjacent (no
\* whitespace-only line stands between two newlines).
C11_AtMostOneEmptyLine ==
  fn = "stripHtmlTags"
    => /\ \A i \in 1..(Len(text) - 2) :
            ~(text[i] = "\n" /\ text[i + 1] = "\n" /\ text[i + 2] = "\n")
       /\ \A i \in 1..Len(text) : \A j \in (i + 1)..Len(text) :
            BlankStretch(text, i, j) => j = i + 1

C11_Witness ==
  /\ fn = "stripHtmlTags"
  /\ \E i \in 1..Len(html) : \E j \in (i + 2)..Len(html) : BlankStretch(html, i, j)
  /\ Contains(text, <<"a", "\n", "\n", "a">>)

\* C12: N, the three final steps of stripHtmlTags, is idempotent, and N(s)
\* holds no two spaces in a row and no whitespace at either end.
C12_WhitespaceIdempotent ==
  fn = "normalizeWhitespace"
    => /\ NormalizeWhitespace(text) = text
       /\ ~Contains(text, <<" ", " ">>)
       /\ text # <<>> => (~IsSpace(text[1]) /\ ~IsSpace(text[Len(text)]))

C12_Witness ==
  /\ fn = "normalizeWhitespace"
  /\ Contains(html, <<"\n", "\t", "\n">>)
  /\ IsSpace(html[1])
  /\ text = <<"a">>

\* C13: on every input, malformed ones included, extractBodyContent and
\* stripHtmlTags return a string and throw nothing; extractBodyContent returns
\* a piece of its input; the empty string yields the empty string.
C13_NormalizerTotal ==
  fn \in {"extractBodyContent", "stripHtmlTags"}
    => /\ text # Thrown
       /\ text \in Seq({text[i] : i \in 1..Len(text)})
       /\ fn = "extractBodyContent" => (text = <<>> \/ Contains(html, text))
       /\ html = <<>> => text = <<>>

C13_EmptyInput ==
  /\ fn = "stripHtmlTags"
  /\ html = <<>>
  /\ text = <<>>

\* C14, as claimed: an input without tags comes back trimmed and
\* whitespace-normalized, with nothing else changed.
C14_TagFreeOnlyNormalized ==
  (fn = "stripHtmlTags" /\ ~HasTag(html)) => text = NormalizeWhitespace(html)

\* C14, amended: an input without tags comes back with the entities of the
\* table decoded, trimmed and whitespace-normalized; when it holds no entity
\* of the table either, nothing but the whitespace changes.
C14_TagFreeDecodedAndNormalized ==
  (fn = "stripHtmlTags" /\ ~HasTag(html))
    => /\ text = NormalizeWhitespace(DecodeEntities(html))
       /\ (\A k \in 1..Len(entities) : ~Contains(html, entities[k].name))
            => text = NormalizeWhitespace(html)

C14_Witness ==
  /\ fn = "stripHtmlTags"
  /\ ~HasTag(html)
  /\ Contains(html, <<"<", ">">>)
  /\ \A k \in 1..Len(entities) : ~Contains(html, entities[k].name)
  /\ text # html
  /\ Contains(text, <<"<", ">">>)

\* How often the call c stands in the log l.
Count(l, c) == Cardinality({i \in 1..Len(l) : l[i] = c})

LocalModes == ProcessingOptionsEnum \ {"external_api"}

\* The invocation r called the normalizer or the formatter.
Processed(r) ==
  \E i \in 1..Len(log[r]) :
    log[r][i] \in {"extractBodyContent", "stripHtmlTags", "formatURLToMarkdown"}

\* C15: in the two stripping modes, when the normalization of a non-blank
\* page is empty or blank, the formatter is still called exactly once with
\* that string, and the request fails only if the formatter fails.
C15_EmptyContentStillFormatted ==
  \A r \in Req :
    LET o == form[r].processingOption
    IN  (/\ PassedChecks(r)
         /\ o \in {"extract_body_strip_tags", "full_page_strip_tags"}
         /\ Trim(ContentForAI(o, fullHtmlContent[r])) = <<>>)
          => /\ Count(log[r], "formatURLToMarkdown") = 1
             /\ formatInput[r].content = ContentForAI(o, fullHtmlContent[r])
             /\ pc[r] = "done"
                  => \/ state[r].success
                     \/ state[r].error \in
                          {"Model request failed",
                           "An unexpected error occurred while processing the URL."}

C15_Witness ==
  \E r \in Req :
    /\ pc[r] = "done"
    /\ form[r].processingOption = "full_page_strip_tags"
    /\ Trim(fullHtmlContent[r]) # <<>>
    /\ formatInput[r].content = <<>>
    /\ Count(log[r], "formatURLToMarkdown") = 1
    /\ state[r].success

\* C16: in mode external_api the URL is never fetched, neither normalizer
\* function nor the formatter is called, and at most one request is sent: a
\* POST of the validated URL to the configured endpoint, none when the
\* endpoint is not configured, and the result is then an error.
C16_ExternalApiBypassesNormalizer ==
  \A r \in Req :
    form[r].processingOption = "external_api"
      => /\ ~Processed(r)
         /\ Count(log[r], "GET") = 0
         /\ Len(requests[r]) <= 1
         /\ \A i \in 1..Len(requests[r]) :
              /\ requests[r][i].method = "POST"
              /\ requests[r][i].to = externalApiUrl
              /\ requests[r][i].url = form[r].url
         /\ externalApiUrl = Null
              => /\ requests[r] = <<>>
                 /\ pc[r] = "done"
                 /\ ~state[r].success
                 /\ state[r].error = "External API URL is not configured. Please set EXTERNAL_MARKDOWN_API_URL environment variable."

C16_Witness ==
  \E r \in Req :
    /\ pc[r] = "done"
    /\ form[r].processingOption = "external_api"
    /\ Len(requests[r]) = 1
    /\ requests[r][1].outcome = "ok"
    /\ state[r].success
    /\ log[r] = <<"POST">>

\* C17: the normalizer functions and the formatter are called only on
\* fetched content of at most 5 * 1024 * 1024 characters that is not blank;
\* longer content, blank content or a response that is not OK ends in an
\* error with none of them called; content of exactly the bound is processed.
C17_SizeBoundBeforeNormalization ==
  \A r \in Req :
    /\ Processed(r)
         => /\ requests[r][1].outcome = "ok"
            /\ JsLength(fullHtmlContent[r]) <= MaxContentLength
            /\ Trim(fullHtmlContent[r]) # <<>>
    /\ (/\ pc[r] = "done"
         /\ form[r].processingOption \in LocalModes
         /\ \/ requests[r][1].outcome = "not ok"
            \/ /\ requests[r][1].outcome = "ok"
               /\ \/ JsLength(fullHtmlContent[r]) > MaxContentLength
                  \/ Trim(fullHtmlContent[r]) = <<>>)
         => /\ ~Processed(r)
            /\ ~state[r].success
            /\ state[r].markdown = Null
            /\ state[r].error # Null
    /\ (/\ form[r].processingOption \in LocalModes
         /\ requests[r] # <<>>
         /\ requests[r][1].outcome = "ok"
         /\ JsLength(fullHtmlContent[r]) = MaxContentLength)
         => Count(log[r], "formatURLToMarkdown") = 1

C17_Witness ==
  \E r \in Req :
    /\ pc[r] = "done"
    /\ form[r].processingOption = "full_page_strip_tags"
    /\ JsLength(fullHtmlContent[r]) = MaxContentLength
    /\ formatInput[r].content = <<LongRun>>
    /\ state[r].success

\* The steps of a local-mode request in their order.
C18_Order ==
  \A r \in Req :
    (form[r].processingOption \in LocalModes)
      => LET o == form[r].processingOption
             normalize == IF o = "extract_body_strip_tags"
                          THEN <<"extractBodyContent", "stripHtmlTags">>
                          ELSE IF o = "full_page_strip_tags" THEN <<"stripHtmlTags">>
                          ELSE <<>>
         IN  /\ log[r] \in {<<"GET">>, <<"GET">> \o normalize \o <<"formatURLToMarkdown">>}
             /\ Len(requests[r]) = 1
             /\ pc[r] = "fetching" <=> requests[r][1].outcome = "pending"
             /\ pc[r] = "fetching" => log[r] = <<"GET">>
             /\ Processed(r)
                  => /\ requests[r][1].outcome = "ok"
                     /\ contentForAI[r] = ContentForAI(o, fullHtmlContent[r])
                     /\ formatInput[r].content = contentForAI[r]
             /\ pc[r] = "formatting" => Count(log[r], "formatURLToMarkdown") = 1
             /\ (pc[r] = "done" /\ requests[r][1].outcome # "ok") => log[r] = <<"GET">>
             /\ (pc[r] = "done" /\ state[r].success)
                  => Count(log[r], "formatURLToMarkdown") = 1

\* A step of a request that has returned: nothing of it changes any more.
C18_NoRetry ==
  \A r \in Req :
    /\ pc[r] = "done"
         => /\ pc'[r] = "done"
            /\ log'[r] = log[r]
            /\ requests'[r] = requests[r]
            /\ state'[r] = state[r]
    /\ Len(log'[r]) >= Len(log[r])
    /\ SubSeq(log'[r], 1, Len(log[r])) = log[r]

\* C18: in a local-mode request the fetch settles first, then the
\* normalizer runs once, then the formatter is called once; nothing happens
\* twice, a failure ends the request with no later step, and a request that
\* has returned does nothing more.
C18_FetchNormalizeFormatOnce ==
  []C18_Order /\ [][C18_NoRetry]_vars

C18_Witness ==
  \E r \in Req :
    /\ pc[r] = "done"
    /\ state[r].success
    /\ log[r] = <<"GET", "extractBodyContent", "stripHtmlTags", "formatURLToMarkdown">>

\* What the normalizer makes of html in the given mode when nothing else runs.
NormalizedAlone(h, mode) ==
  IF mode = "extract_body_strip_tags" THEN stripHtmlTags(extractBodyContent(h))
  ELSE IF mode = "full_page_strip_tags" THEN stripHtmlTags(h)
  ELSE h

\* C19: the normalized content of a request is a function of its own html
\* and mode, whatever other requests are in flight; two requests with the
\* same html and mode get the same content.
C19_NormalizerPure ==
  /\ \A r \in Req :
       Count(log[r], "formatURLToMarkdown") = 1
         => /\ contentForAI[r] = NormalizedAlone(fullHtmlContent[r], form[r].processingOption)
            /\ formatInput[r] = [url |-> form[r].url, content |-> contentForAI[r],
                                 processingOption |-> form[r].processingOption]
  /\ \A r1 \in Req : \A r2 \in Req :
       (/\ Count(log[r1], "formatURLToMarkdown") = 1
        /\ Count(log[r2], "formatURLToMarkdown") = 1
        /\ fullHtmlContent[r1] = fullHtmlContent[r2]
        /\ form[r1].processingOption = form[r2].processingOption)
         => contentForAI[r1] = contentForAI[r2]

C19_Witness ==
  /\ pc[1] = "formatting"
  /\ pc[2] = "formatting"
  /\ form[1].processingOption = "extract_body_strip_tags"
  /\ form[2].processingOption = "full_page_strip_tags"
  /\ fullHtmlContent[1] = fullHtmlContent[2]
  /\ contentForAI[1] = <<"H", "i">>
  /\ contentForAI[2] = <<"T", "\n", "H", "i">>

\* C20: an OK answer of the external API whose JSON body has a truthy error
\* field makes the action return a failure with the error
\* 'External API returned an error: <that error>', never the body as markdown.
C20_ExternalErrorIsFailure ==
  \A r \in Req :
    (/\ pc[r] = "done"
     /\ form[r].processingOption = "external_api"
     /\ responseText[r] = "{\"error\":\"quota\"}")
      => /\ ~state[r].success
         /\ state[r].markdown = Null
         /\ state[r].error = "External API returned an error: quota"


\* C21: every state the action returns is either a success (error null,
\* markdown not null) or a failure (markdown null, error a non-empty string),
\* on every path; a failure is returned, never thrown.
C21_ReturnedStateShape ==
  \A r \in Req :
    pc[r] = "done" =>
      \/ /\ state[r].success
         /\ state[r].error = Null
         /\ state[r].markdown # Null
      \/ /\ ~state[r].success
         /\ state[r].markdown = Null
         /\ state[r].error \notin {Null, ""}

\* The formatter rejected with an error that carries no message, and the
\* action returned the default message.
C21_Witness ==
  \E r \in Req :
    /\ pc[r] = "done"
    /\ Count(log[r], "formatURLToMarkdown") = 1
    /\ ~state[r].success
    /\ state[r].error = "An unexpected error occurred while processing the URL."

\* C22: whenever the action returns success, the markdown of the returned
\* state is a non-blank string, on the external path and on the local ones.
C22_SuccessHasMarkdown ==
  \A r \in Req :
    (pc[r] = "done" /\ state[r].success) =>
      (state[r].markdown # Null /\ ~IsBlank(state[r].markdown))


\* The escaped form of an entity name: &amp; followed by the name without
\* its ampersand.
Escaped(name) == <<"&", "a", "m", "p", ";">> \o Tail(name)

\* C23: every entity occurrence of the input is decoded at most once: for
\* every name X of the table other than amp, the escaped input &amp;X; yields
\* the literal text &X; and never the character X denotes.
C23_EscapedEntityStaysLiteral ==
  \A k \in 1..Len(entities) :
    (fn = "stripHtmlTags" /\ entities[k].name # <<"&", "a", "m", "p", ";">>
       /\ html = Escaped(entities[k].name))
      => text = entities[k].name


UserMessageAt(k) ==
  FirstOf({p \in 1..Len(messages) :
            /\ messages[p].role = "user"
            /\ Cardinality({q \in 1..p : messages[q].role = "user"}) = k}, 0)

\* The assistant messages that follow the k-th user message, up to the next
\* user message.
AnswersTo(k) ==
  LET from == UserMessageAt(k)
      next == UserMessageAt(k + 1)
      to   == IF next = 0 THEN Len(messages) ELSE next - 1
  IN  {p \in (from + 1)..to : messages[p].role = "ai"}

\* C25: once the call made for an accepted user message has settled, exactly
\* one assistant message stands after that user message, and isLoading is
\* false again.
C25_EveryMessageAnswered ==
  \A k \in 1..Len(chatCalls) :
    chatCalls[k].outcome # "pending"
      => /\ Cardinality(AnswersTo(k)) = 1
         /\ k = Len(chatCalls) => ~isLoading


\* The calls that have not settled.
InFlight == {k \in 1..Len(chatCalls) : chatCalls[k].outcome = "pending"}

\* The user messages of a transcript.
UserMessages(msgs) == {p \in 1..Len(msgs) : msgs[p].role = "user"}

C26_OneInFlight ==
  /\ Cardinality(InFlight) <= 1
  /\ isLoading <=> InFlight # {}
  /\ \A k \in 1..Len(chatCalls) : ~IsBlank(chatCalls[k].userQuery)
  /\ Cardinality(UserMessages(messages)) = Len(chatCalls)

C26_Step ==
  /\ (isLoading \/ IsBlank(inputValue))
       => /\ Len(chatCalls') = Len(chatCalls)
          /\ UserMessages(messages') = UserMessages(messages)
  /\ Len(messages') >= Len(messages)
  /\ SubSeq(messages', 1, Len(messages)) = messages

\* C26: at most one chat request is in flight: while isLoading is true or the
\* input is blank no call is started and no user message appended, isLoading
\* is true exactly from the acceptance of a message until its call settles,
\* and the transcript only grows at its end.
C26_AtMostOneInFlight == []C26_OneInFlight /\ [][C26_Step]_vars

\* A second message is in flight after the first was answered.
C26_Witness ==
  /\ isLoading
  /\ Len(chatCalls) = 2
  /\ InFlight = {2}
  /\ Len(messages) = 4

\* What the model is sent for a transcript message.
AsHistory(m) ==
  [role |-> IF m.role = "user" THEN "user" ELSE "model", text |-> m.text]

\* C27: every call carries the text of its user message as userQuery and, as
\* chatHistory, all transcript messages before that message, in order, with
\* role ai sent as model; the current message is not part of it.
C27_HistoryBeforeQuery ==
  \A k \in 1..Len(chatCalls) :
    LET at == UserMessageAt(k)
    IN  /\ at > 0
        /\ chatCalls[k].userQuery = messages[at].text
        /\ Len(chatCalls[k].chatHistory) = at - 1
        /\ \A p \in 1..(at - 1) : chatCalls[k].chatHistory[p] = AsHistory(messages[p])

\* The second call carries the greeting, the first message and an error
\* notice, the assistant's messages as model.
C27_Witness ==
  /\ Len(chatCalls) = 2
  /\ Len(chatCalls[2].chatHistory) = 3
  /\ chatCalls[2].chatHistory[1].role = "model"
  /\ chatCalls[2].chatHistory[2] = [role |-> "user", text |-> chatCalls[1].userQuery]
  /\ chatCalls[2].chatHistory[3] =
       [role |-> "model", text |-> "Sorry, I encountered an error: quota exceeded"]


\* C28: once the provider has mounted and its effects have run, the document
\* root carries exactly one of the classes light and dark, whatever was
\* stored and whatever setTheme was called with; with theme system it is the
\* class matching the prefers-color-scheme query.
C28_ExactlyOneThemeClass ==
  (mounted /\ applied = <<theme, mounted>>)
    => /\ Cardinality(rootClasses \cap {"light", "dark"}) = 1
       /\ theme = "system"
            => rootClasses \cap {"light", "dark"} = {IF prefersDark THEN "dark" ELSE "light"}

\* C29: useTheme called outside a ThemeProvider throws 'useTheme must be used
\* within a ThemeProvider' and returns no context.
C29_UseThemeOutsideThrows ==
  (consumer.result.kind # "none" /\ ~consumer.inside)
    => /\ consumer.result.kind = "thrown"
       /\ consumer.result.message = "useTheme must be used within a ThemeProvider"

====
